---- MODULE Spec2Model ----
(***************************************************************************)
(* Model of the io-stream coroutines (Read, Write, ReadExact, ReadToEnd),  *)
(* of the StreamIo protocol values they exchange with a runtime, and of    *)
(* the std runtime handler, together with the driver loops of the tests.   *)
(*                                                                         *)
(* A Vec<u8> is a record [data, cap]: its elements and its allocated       *)
(* capacity (vec![0; n] and shrink_to give capacity exactly n for u8).     *)
(* A u8 is abstracted to the values of Byte; 0 is the zero byte.           *)
(***************************************************************************)
EXTENDS Integers, Sequences, FiniteSets, TLC

VARIABLES
  mach,     \* which coroutine the driver constructed
  rd,       \* ReadStream (standalone)
  wr,       \* WriteStream
  ex,       \* ReadStreamExact
  te,       \* ReadStreamToEnd
  src,      \* bytes of the stream the runtime reads from
  pos,      \* number of bytes of src already consumed
  sink,     \* bytes the runtime wrote to the stream
  arg,      \* the driver's `arg` variable (Option<StreamIo>)
  res,      \* the result of the latest resume
  phase,    \* position of the driver loop: "call", "io", "ok", "done", or
            \* "after" once the machine was resumed past its terminal result
  op,       \* observation: the latest operation performed
  lastArg,  \* observation: the argument of the latest resume
  eofs,     \* observation: number of Eof results returned, counted up to 2
  shortRep, \* observation: the buffer held was given to replace with len < capacity
  cap0,     \* observation: the capacity given to with_capacity of ReadExact / ReadToEnd
  seed,     \* observation: bytes given to extend before the first resume
  late,     \* observation: number of bytes given to extend after the first resume
  fed,      \* observation: bytes handed to the machine (new, extend and reads), in order
  drives,   \* observation: number of times the latest resume of ReadExact /
            \* ReadToEnd called resume on its inner ReadStream
  pair,     \* two machines driven side by side: a ReadExact and a ReadStream
  ios       \* observation: number of Io requests the machine emitted from
            \* a resume(None) (up to 2 for a WriteStream alone, not counted
            \* for a ReadStream alone)

vars == <<mach, rd, wr, ex, te, src, pos, sink, arg, res, phase, op,
          lastArg, eofs, shortRep, cap0, seed, late, fed, ios, drives, pair>>

(***************************************************************************)
(* Bounds of the model.                                                    *)
(***************************************************************************)
MaxCap == 2    \* largest buffer capacity
MaxMax == 3    \* largest ReadExact target
MaxLen == 4    \* longest source / payload
MaxSeed == 2   \* most bytes given to extend in a run

Byte == {0, 1}

Min(a, b) == IF a < b THEN a ELSE b

SeqsUpTo(n) == UNION {[1..k -> Byte] : k \in 0..n}

(***************************************************************************)
(* Vec<u8>                                                                 *)
(***************************************************************************)
Vec(d, c) == [data |-> d, cap |-> c]

\* vec![0; n]
VecZeros(n) == Vec([i \in 1..n |-> 0], n)

\* Vec::fill(0)
VecFillZero(v) == Vec([i \in 1..Len(v.data) |-> 0], v.cap)

\* Vec::truncate(len) followed by Vec::shrink_to(len)
VecTruncateShrink(v, len) ==
  LET d == IF len < Len(v.data) THEN SubSeq(v.data, 1, len) ELSE v.data
  IN  Vec(d, IF v.cap > len THEN len ELSE v.cap)

IsZero(v) == \A i \in 1..Len(v.data) : v.data[i] = 0

\* the vectors a caller can build within the bounds
Vecs == {v \in [data : SeqsUpTo(MaxCap), cap : 0..MaxCap] : Len(v.data) <= v.cap}

(***************************************************************************)
(* StreamIo, StreamOutput, Option                                          *)
(***************************************************************************)
Output(b, n) == [buffer |-> b, bytes_count |-> n]

\* StreamOutput::bytes; the slice panics when bytes_count > buffer.len()
BytesPanics(o) == o.bytes_count > Len(o.buffer.data)
\* a slip: the whole buffer in place of its first bytes_count bytes
BytesWholeBuffer(o) == o.buffer.data

Bytes(o) == SubSeq(o.buffer.data, 1, o.bytes_count)

\* Result<StreamOutput, Vec<u8>>
IoOk(o) == [ok |-> TRUE, output |-> o]
IoErr(b) == [ok |-> FALSE, buffer |-> b]

IoRead(x) == [kind |-> "Read", io |-> x]
IoWrite(x) == [kind |-> "Write", io |-> x]

None == [some |-> FALSE]
Some(v) == [some |-> TRUE, val |-> v]

\* the results of the four coroutines
ROk(o) == [tag |-> "Ok", output |-> o]
RIo(io) == [tag |-> "Io", io |-> io]
REof == [tag |-> "Eof"]
RErr(e) == [tag |-> "Err", err |-> e]
RNone == [tag |-> "None"]

InvalidArgument(expected, io) ==
  [variant |-> "InvalidArgument", expected |-> expected, got |-> io]

\* the StreamIo values a caller can build within the bounds: requests and
\* responses of both shapes, a response counting at most its buffer's length
Results ==
  {IoErr(b) : b \in Vecs}
    \cup {IoOk(Output(b, n)) : b \in Vecs, n \in 0..MaxCap}
IoPool ==
  {io \in {IoRead(x) : x \in Results} \cup {IoWrite(x) : x \in Results} :
     io.io.ok => io.io.output.bytes_count <= Len(io.io.output.buffer.data)}

(***************************************************************************)
(* ReadStream                                                              *)
(***************************************************************************)
ReadWithCapacity(capacity) == [buffer |-> VecZeros(capacity)]

ReadCapacity(r) == r.buffer.cap

ReadTruncate(r, len) == [buffer |-> VecTruncateShrink(r.buffer, len)]

\* a slip: the given buffer installed as it is
ReadReplaceUnfilled(r, buffer) == [buffer |-> buffer]

ReadReplace(r, buffer) == [buffer |-> VecFillZero(buffer)]

\* a slip: any StreamIo taken for a read one
IsReadShapedAny(io) == TRUE

\* `let StreamIo::Read(io) = arg else`
IsReadShaped(io) == io.kind = "Read"

\* a slip: the buffer taken out, nothing put in its place
ReadTakeLeavingEmpty(r) ==
  [m |-> [buffer |-> Vec(<<>>, 0)], result |-> RIo(IoRead(IoErr(r.buffer)))]

\* resume(None): the buffer is swapped for vec![0; capacity] and emitted
ReadTake(r) ==
  [m |-> [buffer |-> VecZeros(r.buffer.cap)],
   result |-> RIo(IoRead(IoErr(r.buffer)))]

\* a slip: a pending request handled as no argument at all
ReadPendingAsNone(r, buffer) == ReadTake(r)

\* resume(Some(Read(Err(buffer)))): the pending request is emitted again
ReadPending(r, buffer) == [m |-> r, result |-> RIo(IoRead(IoErr(buffer)))]

\* a slip: a read of zero bytes answered by the same request once more
ReadClassifyRetrying(r, output) ==
  IF output.bytes_count = 0
  THEN [m |-> r, result |-> RIo(IoRead(IoErr(output.buffer)))]
  ELSE [m |-> r, result |-> ROk(output)]

\* resume(Some(Read(Ok(output)))): Eof for a count of 0, Ok otherwise
ReadClassify(r, output) ==
  IF output.bytes_count = 0
  THEN [m |-> r, result |-> REof]
  ELSE [m |-> r, result |-> ROk(output)]

\* ReadStream::resume: the machine after the call and the result
ReadResume(r, a) ==
  IF ~a.some THEN ReadTake(r)
  ELSE IF ~IsReadShaped(a.val)
  THEN [m |-> r, result |-> RErr(InvalidArgument("read output", a.val))]
  ELSE IF ~a.val.io.ok THEN ReadPending(r, a.val.io.buffer)
  ELSE ReadClassify(r, a.val.io.output)

(***************************************************************************)
(* WriteStream                                                             *)
(***************************************************************************)
WriteNew(bytes) == [bytes |-> bytes]

\* a slip: any StreamIo taken for a write one
IsWriteShapedAny(io) == TRUE

\* `let StreamIo::Write(io) = arg else`
IsWriteShaped(io) == io.kind = "Write"

\* a slip: the bytes copied into the request and kept by the machine
WriteDrainKeeping(w) ==
  [m |-> w,
   result |-> RIo(IoWrite(IoErr(Vec(w.bytes.data, Len(w.bytes.data)))))]

\* resume(None): the bytes are drained into a new vector and emitted
WriteDrain(w) ==
  [m |-> [bytes |-> Vec(<<>>, w.bytes.cap)],
   result |-> RIo(IoWrite(IoErr(Vec(w.bytes.data, Len(w.bytes.data)))))]

\* resume(Some(Write(Err(bytes)))): the pending request is emitted again
WritePending(w, bytes) == [m |-> w, result |-> RIo(IoWrite(IoErr(bytes)))]

\* a slip: a partial write answered by a request for the bytes left over
WriteClassifyRetrying(w, output) ==
  IF output.bytes_count = 0
  THEN [m |-> w, result |-> REof]
  ELSE IF output.bytes_count < Len(output.buffer.data)
  THEN [m |-> w,
        result |-> RIo(IoWrite(IoErr(
          Vec(SubSeq(output.buffer.data, output.bytes_count + 1,
                     Len(output.buffer.data)),
              Len(output.buffer.data) - output.bytes_count))))]
  ELSE [m |-> w, result |-> ROk(output)]

\* resume(Some(Write(Ok(output)))): Eof for a count of 0, Ok otherwise
WriteClassify(w, output) ==
  IF output.bytes_count = 0
  THEN [m |-> w, result |-> REof]
  ELSE [m |-> w, result |-> ROk(output)]

\* WriteStream::resume: the machine after the call and the result
WriteResume(w, a) ==
  IF ~a.some THEN WriteDrain(w)
  ELSE IF ~IsWriteShaped(a.val)
  THEN [m |-> w, result |-> RErr(InvalidArgument("write output", a.val))]
  ELSE IF ~a.val.io.ok THEN WritePending(w, a.val.io.buffer)
  ELSE WriteClassify(w, a.val.io.output)

(***************************************************************************)
(* ReadStreamExact                                                         *)
(***************************************************************************)
\* a slip: the number of bytes read in place of the deficit
UnexpectedEofBytesRead(remaining, max, buffer) ==
  [variant |-> "UnexpectedEof", remaining |-> Len(buffer), max |-> max,
   bytes |-> buffer]

UnexpectedEof(remaining, max, buffer) ==
  [variant |-> "UnexpectedEof", remaining |-> remaining, max |-> max,
   bytes |-> buffer]

\* #[from] ReadStreamError
FromRead(e) == [variant |-> "Read", source |-> e]

\* the accumulated bytes as an Ok result of ReadExact / ReadToEnd
ROkBytes(b) == [tag |-> "Ok", bytes |-> b]

RPanic == [tag |-> "Panic"]

ExactWithCapacity(capacity, max) ==
  [read |-> ReadWithCapacity(Min(capacity, max)), buffer |-> <<>>, max |-> max]

\* a slip: the given bytes put in place of the accumulated ones
ExactExtendReplacing(e, bytes) == [e EXCEPT !.buffer = bytes]

ExactExtend(e, bytes) == [e EXCEPT !.buffer = @ \o bytes]

\* a slip: `>` for `>=` in the completion test
ExactCompleteStrict(e) == Len(e.buffer) > e.max

\* the `if self.buffer.len() >= self.max` of ReadStreamExact::resume
ExactComplete(e) == Len(e.buffer) >= e.max

\* the `if remaining < self.read.capacity()` of ReadStreamExact::resume
\* a slip: the inner read left at its capacity
ExactShrinkNever(r, remaining) == r

ExactShrink(r, remaining) ==
  IF remaining < ReadCapacity(r) THEN ReadTruncate(r, remaining) ELSE r

\* a slip: the argument passed to the inner read again on every iteration
RECURSIVE ExactLoopKeepingArg(_, _, _)
ExactLoopKeepingArg(e, a, inner) ==
  IF ExactComplete(e)
  THEN [m |-> [e EXCEPT !.buffer = <<>>], result |-> ROkBytes(e.buffer),
        inner |-> inner]
  ELSE
    LET remaining == e.max - Len(e.buffer)
        r == ReadResume(ExactShrink(e.read, remaining), a)
    IN  CASE r.result.tag = "Ok" ->
               ExactLoopKeepingArg(
                 [e EXCEPT !.buffer = @ \o Bytes(r.result.output),
                           !.read = ReadReplace(r.m, r.result.output.buffer)],
                 a, inner + 1)
          [] r.result.tag = "Err" ->
               [m |-> [e EXCEPT !.read = r.m],
                result |-> RErr(FromRead(r.result.err)), inner |-> inner + 1]
          [] r.result.tag = "Io" ->
               [m |-> [e EXCEPT !.read = r.m],
                result |-> RIo(r.result.io), inner |-> inner + 1]
          [] r.result.tag = "Eof" ->
               [m |-> [e EXCEPT !.read = r.m, !.buffer = <<>>],
                result |-> RErr(UnexpectedEof(remaining, e.max, e.buffer)),
                inner |-> inner + 1]

\* ReadStreamExact::resume: the loop, one iteration per recursion;
\* inner counts the calls of the inner ReadStream::resume
RECURSIVE ExactLoop(_, _, _)
ExactLoop(e, a, inner) ==
  IF ExactComplete(e)
  THEN [m |-> [e EXCEPT !.buffer = <<>>], result |-> ROkBytes(e.buffer),
        inner |-> inner]
  ELSE
    LET remaining == e.max - Len(e.buffer)
        r == ReadResume(ExactShrink(e.read, remaining), a)
    IN  CASE r.result.tag = "Ok" ->
               IF BytesPanics(r.result.output)
               THEN [m |-> [e EXCEPT !.read = r.m], result |-> RPanic,
                     inner |-> inner + 1]
               ELSE ExactLoop([e EXCEPT
                                 !.buffer = @ \o Bytes(r.result.output),
                                 !.read = ReadReplace(r.m, r.result.output.buffer)],
                              None, inner + 1)
          [] r.result.tag = "Err" ->
               [m |-> [e EXCEPT !.read = r.m],
                result |-> RErr(FromRead(r.result.err)), inner |-> inner + 1]
          [] r.result.tag = "Io" ->
               [m |-> [e EXCEPT !.read = r.m],
                result |-> RIo(r.result.io), inner |-> inner + 1]
          [] r.result.tag = "Eof" ->
               [m |-> [e EXCEPT !.read = r.m, !.buffer = <<>>],
                result |-> RErr(UnexpectedEof(remaining, e.max, e.buffer)),
                inner |-> inner + 1]

\* a slip: the accumulated bytes copied into the Ok result and kept
ExactResumeKeeping(e, a) ==
  LET r == ExactLoop(e, a, 0)
  IN  IF r.result.tag = "Ok"
      THEN [r EXCEPT !.m = [r.m EXCEPT !.buffer = r.result.bytes]]
      ELSE r

ExactResume(e, a) == ExactLoop(e, a, 0)

(***************************************************************************)
(* ReadStreamToEnd                                                         *)
(***************************************************************************)
ToEndWithCapacity(capacity) ==
  [read |-> ReadWithCapacity(capacity), buffer |-> <<>>]

ToEndExtend(t, bytes) == [t EXCEPT !.buffer = @ \o bytes]

\* ReadStreamToEnd::resume: the loop, one iteration per recursion
RECURSIVE ToEndLoop(_, _, _)
ToEndLoop(t, a, inner) ==
  LET r == ReadResume(t.read, a)
  IN  CASE r.result.tag = "Ok" ->
             IF BytesPanics(r.result.output)
             THEN [m |-> [t EXCEPT !.read = r.m], result |-> RPanic,
                   inner |-> inner + 1]
             ELSE ToEndLoop([t EXCEPT
                               !.buffer = @ \o Bytes(r.result.output),
                               !.read = ReadReplace(r.m, r.result.output.buffer)],
                            None, inner + 1)
        [] r.result.tag = "Err" ->
             [m |-> [t EXCEPT !.read = r.m],
              result |-> RErr(FromRead(r.result.err)), inner |-> inner + 1]
        [] r.result.tag = "Io" ->
             [m |-> [t EXCEPT !.read = r.m],
              result |-> RIo(r.result.io), inner |-> inner + 1]
        [] r.result.tag = "Eof" ->
             [m |-> [t EXCEPT !.read = r.m, !.buffer = <<>>],
              result |-> ROkBytes(t.buffer), inner |-> inner + 1]

ToEndResume(t, a) == ToEndLoop(t, a, 0)

(***************************************************************************)
(* The std runtime: handle / read on a stream holding src from pos on.     *)
(***************************************************************************)
\* the byte counts one std::io::Read::read into a buffer of length n can
\* return with k bytes left: 0 only at the end of the stream or for n = 0
ReadCounts(n, k) == IF Min(n, k) = 0 THEN {0} ELSE 1..Min(n, k)

\* a slip: the bytes taken from the start of the stream at every read
FilledFromStart(b, s, p, n) ==
  Vec([i \in 1..Len(b.data) |-> IF i <= n THEN s[i] ELSE b.data[i]], b.cap)

\* the buffer after a read of n bytes of stream s from offset p
Filled(b, s, p, n) ==
  Vec([i \in 1..Len(b.data) |-> IF i <= n THEN s[p + i] ELSE b.data[i]], b.cap)

\* a slip: a completed output read into once more
StdReadAgain(input, s, p, n) ==
  LET buffer == IF input.ok THEN input.output.buffer ELSE input.buffer
  IN  [io |-> IoRead(IoOk(Output(Filled(buffer, s, p, n), n))), pos |-> p + n]

\* a slip: the response of a read built with the Write variant
StdReadAsWrite(input, s, p, n) ==
  IF input.ok
  THEN [io |-> IoWrite(IoOk(input.output)), pos |-> p]
  ELSE [io |-> IoWrite(IoOk(Output(Filled(input.buffer, s, p, n), n))),
        pos |-> p + n]

\* runtimes::std::read with the stream returning n bytes
StdRead(input, s, p, n) ==
  IF input.ok
  THEN [io |-> IoRead(IoOk(input.output)), pos |-> p]
  ELSE [io |-> IoRead(IoOk(Output(Filled(input.buffer, s, p, n), n))),
        pos |-> p + n]

\* the counts a write of a buffer of k bytes can return
WriteCounts(k) == 0..k

\* runtimes::std::write with the stream accepting n bytes
StdWrite(input, n) ==
  IF input.ok
  THEN [io |-> IoWrite(IoOk(input.output)), written |-> <<>>]
  ELSE [io |-> IoWrite(IoOk(Output(input.buffer, n))),
        written |-> SubSeq(input.buffer.data, 1, n)]

\* runtimes::std::handle: the Io returned, the position of the stream and
\* the bytes written to it
StdHandle(io, s, p, n) ==
  IF io.kind = "Read"
  THEN LET r == StdRead(io.io, s, p, n)
       IN  [io |-> r.io, pos |-> r.pos, written |-> <<>>]
  ELSE LET w == StdWrite(io.io, n)
       IN  [io |-> w.io, pos |-> p, written |-> w.written]

(***************************************************************************)
(* State after construction.  The machines the driver did not construct    *)
(* stay at a fixed value.                                                  *)
(***************************************************************************)
InitDriver ==
  /\ pos = 0
  /\ arg = None
  /\ res = RNone
  /\ phase = "call"
  /\ op = "new"
  /\ lastArg = None
  /\ eofs = 0
  /\ shortRep = FALSE
  /\ seed = <<>>
  /\ late = 0
  /\ fed = <<>>
  /\ ios = 0
  /\ sink = <<>>
  /\ drives = 0
  /\ pair = <<>>

InitExact ==
  /\ mach = "Exact"
  /\ cap0 \in 0..MaxCap
  /\ \E max \in 0..MaxMax : ex = ExactWithCapacity(cap0, max)
  /\ src \in SeqsUpTo(MaxLen)
  /\ rd = ReadWithCapacity(0)
  /\ wr = WriteNew(Vec(<<>>, 0))
  /\ te = ToEndWithCapacity(0)
  /\ InitDriver

InitToEnd ==
  /\ mach = "ToEnd"
  /\ cap0 \in 0..MaxCap
  /\ te = ToEndWithCapacity(cap0)
  /\ src \in SeqsUpTo(MaxLen)
  /\ rd = ReadWithCapacity(0)
  /\ wr = WriteNew(Vec(<<>>, 0))
  /\ ex = ExactWithCapacity(0, 0)
  /\ InitDriver

(***************************************************************************)
(* The driver loop of the ReadExact tests: resume, answer the emitted read *)
(* request with one read of the stream, resume with the response, until a  *)
(* result other than Io.  extend is called before the first resume or      *)
(* while a request is pending.                                             *)
(***************************************************************************)
MayExtend == (phase = "call" /\ res = RNone) \/ phase = "io"

Extended(b) ==
  /\ Len(seed) + late + Len(b) <= MaxSeed
  /\ seed' = IF res = RNone THEN seed \o b ELSE seed
  /\ late' = IF res = RNone THEN late ELSE late + Len(b)
  /\ fed' = fed \o b
  /\ op' = "extend"

Resumed(r) ==
  /\ res' = r.result
  /\ lastArg' = arg
  /\ arg' = None
  /\ op' = "resume"
  /\ phase' = IF r.result.tag = "Io" THEN "io" ELSE "done"
  /\ ios' = IF r.result.tag = "Io" THEN ios + 1 ELSE ios
  /\ eofs' = IF r.result = REof /\ eofs < 2 THEN eofs + 1 ELSE eofs
  /\ drives' = r.inner

Handled(n) ==
  LET h == StdHandle(res.io, src, pos, n)
  IN  /\ arg' = Some(h.io)
      /\ pos' = h.pos
      /\ sink' = sink \o h.written
      /\ fed' = fed \o SubSeq(src, pos + 1, h.pos)
      /\ phase' = "call"
      /\ op' = "handle"

ExResume ==
  /\ mach = "Exact"
  /\ phase = "call"
  /\ LET r == ExactResume(ex, arg)
     IN  ex' = r.m /\ Resumed(r)
  /\ UNCHANGED <<mach, rd, wr, te, src, pos, shortRep, cap0, seed, late, fed,
                 sink, pair>>

ExHandle ==
  /\ mach = "Exact"
  /\ phase = "io"
  /\ \E n \in ReadCounts(Len(res.io.io.buffer.data), Len(src) - pos) : Handled(n)
  /\ UNCHANGED <<mach, rd, wr, ex, te, src, res, lastArg, eofs, shortRep,
                 cap0, seed, late, ios, drives, pair>>

ExExtend ==
  /\ mach = "Exact"
  /\ MayExtend
  /\ \E b \in SeqsUpTo(MaxSeed) \ {<<>>} :
       ex' = ExactExtend(ex, b) /\ Extended(b)
  /\ UNCHANGED <<mach, rd, wr, te, src, pos, arg, res, phase, lastArg, eofs,
                 shortRep, cap0, ios, sink, drives, pair>>

NextExact == ExResume \/ ExHandle \/ ExExtend

SpecExact == InitExact /\ [][NextExact]_vars

(***************************************************************************)
(* The driver loop of the ReadToEnd test.                                  *)
(***************************************************************************)
TeResume ==
  /\ mach = "ToEnd"
  /\ phase = "call"
  /\ LET r == ToEndResume(te, arg)
     IN  te' = r.m /\ Resumed(r)
  /\ UNCHANGED <<mach, rd, wr, ex, src, pos, shortRep, cap0, seed, late, fed,
                 sink, pair>>

TeHandle ==
  /\ mach = "ToEnd"
  /\ phase = "io"
  /\ \E n \in ReadCounts(Len(res.io.io.buffer.data), Len(src) - pos) : Handled(n)
  /\ UNCHANGED <<mach, rd, wr, ex, te, src, res, lastArg, eofs, shortRep,
                 cap0, seed, late, ios, drives, pair>>

TeExtend ==
  /\ mach = "ToEnd"
  /\ MayExtend
  /\ \E b \in SeqsUpTo(MaxSeed) \ {<<>>} :
       te' = ToEndExtend(te, b) /\ Extended(b)
  /\ UNCHANGED <<mach, rd, wr, ex, src, pos, arg, res, phase, lastArg, eofs,
                 shortRep, cap0, ios, sink, drives, pair>>

NextToEnd == TeResume \/ TeHandle \/ TeExtend

SpecToEnd == InitToEnd /\ [][NextToEnd]_vars

(***************************************************************************)
(* The driver loop of the ReadExact tests as a function: every request is  *)
(* answered by one read that fills the buffer as far as the stream allows  *)
(* (a BufReader over a byte slice).  Gives the terminal result and the     *)
(* bytes left unread.                                                      *)
(***************************************************************************)
RECURSIVE ExactRun(_, _, _, _)
ExactRun(e, a, s, p) ==
  LET r == ExactResume(e, a)
  IN  IF r.result.tag = "Io"
      THEN LET n == Min(Len(r.result.io.io.buffer.data), Len(s) - p)
               h == StdHandle(r.result.io, s, p, n)
           IN  ExactRun(r.m, Some(h.io), s, h.pos)
      ELSE [result |-> r.result, unread |-> SubSeq(s, p + 1, Len(s))]

Unread == SubSeq(src, pos + 1, Len(src))

\* a ReadExact / ReadToEnd that extend was never called on
Unseeded == seed = <<>> /\ late = 0

ExactDone == mach = "Exact" /\ phase = "done"

IsUnexpectedEof(r) == r.tag = "Err" /\ r.err.variant = "UnexpectedEof"

(***************************************************************************)
(* C1.  ReadExact exactness, success side: a ReadExact that extend was     *)
(* never called on, driven to its terminal result against a source of      *)
(* length L >= max, returns Ok with exactly the first max bytes of the     *)
(* source and leaves L - max bytes of the source unconsumed, for every     *)
(* capacity with_capacity accepts.                                         *)
(***************************************************************************)
C1_ExactSuccess ==
  (ExactDone /\ Unseeded /\ Len(src) >= ex.max)
    => /\ res = ROkBytes(SubSeq(src, 1, ex.max))
       /\ Len(src) - pos = Len(src) - ex.max

\* the same statement restricted to the capacities of at least one byte
C1_ExactSuccessPositiveCapacity ==
  (ExactDone /\ Unseeded /\ Len(src) >= ex.max /\ cap0 >= 1)
    => /\ res = ROkBytes(SubSeq(src, 1, ex.max))
       /\ Len(src) - pos = Len(src) - ex.max

(***************************************************************************)
(* C2.  ReadExact exactness, failure side, as the claim states it: against *)
(* a source of length L < max the terminal result is                       *)
(* UnexpectedEof(L, max, first L bytes of the source).  Stated over the    *)
(* capacities of at least one byte, where every byte of the source is      *)
(* read before the Eof.                                                    *)
(***************************************************************************)
C2_ExactFailureAsClaimed ==
  (ExactDone /\ Unseeded /\ Len(src) < ex.max /\ cap0 >= 1)
    => /\ IsUnexpectedEof(res)
       /\ res.err.remaining = Len(src)
       /\ res.err.max = ex.max
       /\ res.err.bytes = src

(***************************************************************************)
(* C2 (amended).  Against a source of length L < max the terminal result   *)
(* is UnexpectedEof(max - n, max, first n bytes of the source), where n is *)
(* the number of bytes consumed from the source: n = L when the capacity   *)
(* is at least 1, and n = 0 when the capacity is 0.                        *)
(***************************************************************************)
C2_ExactFailure ==
  (ExactDone /\ Unseeded /\ Len(src) < ex.max)
    => /\ IsUnexpectedEof(res)
       /\ res.err.remaining = ex.max - pos
       /\ res.err.max = ex.max
       /\ res.err.bytes = SubSeq(src, 1, pos)
       /\ pos = IF cap0 = 0 THEN 0 ELSE Len(src)

C2_Witness ==
  /\ ExactDone /\ Unseeded /\ Len(src) < ex.max
  /\ cap0 >= 1 /\ pos = 2 /\ ios >= 2
  /\ IsUnexpectedEof(res) /\ res.err.remaining # Len(src)

(***************************************************************************)
(* C3.  Every UnexpectedEof error of ReadExact carries every byte          *)
(* collected so far (given to extend and read from the source) in order,   *)
(* and remaining = max - len(accumulated), so remaining + len(accumulated) *)
(* = max and remaining >= 1.                                               *)
(***************************************************************************)
C3_UnexpectedEofFields ==
  (mach = "Exact" /\ IsUnexpectedEof(res))
    => /\ res.err.bytes = fed
       /\ res.err.max = ex.max
       /\ res.err.remaining = ex.max - Len(res.err.bytes)
       /\ res.err.remaining + Len(res.err.bytes) = ex.max
       /\ res.err.remaining >= 1

C3_Witness ==
  /\ mach = "Exact" /\ IsUnexpectedEof(res)
  /\ seed # <<>> /\ pos >= 1 /\ Len(res.err.bytes) = Len(seed) + pos

(***************************************************************************)
(* C4.  Capacity independence of ReadExact: the terminal result and the    *)
(* bytes left unread of a run with the capacity given at construction      *)
(* equal those of the run of the test driver with any other capacity,      *)
(* for the same max and the same source.                                   *)
(***************************************************************************)
C4_CapacityIndependence ==
  (ExactDone /\ Unseeded)
    => \A c2 \in 0..MaxCap :
         [result |-> res, unread |-> Unread]
           = ExactRun(ExactWithCapacity(c2, ex.max), None, src, 0)

\* the same statement over the capacities of at least one byte
C4_CapacityIndependencePositive ==
  (ExactDone /\ Unseeded /\ cap0 >= 1)
    => \A c2 \in 1..MaxCap :
         [result |-> res, unread |-> Unread]
           = ExactRun(ExactWithCapacity(c2, ex.max), None, src, 0)

(***************************************************************************)
(* C5.  Pre-seeded completion of ReadExact: a resume called while the      *)
(* accumulated length is >= max returns Ok with all accumulated bytes      *)
(* (more than max when more were given to extend), emits no Io request     *)
(* and consumes nothing from the source.                                   *)
(***************************************************************************)
C5_PreSeededCompletion ==
  [][(mach = "Exact" /\ phase = "call" /\ phase' # "call"
        /\ Len(ex.buffer) >= ex.max)
       => /\ res' = ROkBytes(ex.buffer)
          /\ phase' = "done"
          /\ ios' = ios
          /\ pos' = pos]_vars

C5_Witness ==
  /\ ExactDone /\ ios = 0 /\ pos = 0
  /\ res.tag = "Ok" /\ res.bytes = seed /\ Len(res.bytes) > ex.max

ToEndDone == mach = "ToEnd" /\ phase = "done"

\* the argument of the latest resume was a read response of zero bytes,
\* which is what makes the inner Read report Eof
InnerEof ==
  /\ lastArg.some /\ lastArg.val.kind = "Read" /\ lastArg.val.io.ok
  /\ lastArg.val.io.output.bytes_count = 0

(***************************************************************************)
(* C6.  ReadToEnd completeness and conservation: for every capacity        *)
(* with_capacity accepts and every source, the run terminates with Ok      *)
(* exactly on the inner Eof, and the bytes returned are the pre-seeded     *)
(* bytes followed by all bytes of the source in source order.              *)
(***************************************************************************)
C6_ToEndComplete ==
  /\ (mach = "ToEnd" /\ op = "resume") => (res.tag = "Ok" <=> InnerEof)
  /\ (ToEndDone /\ late = 0)
       => res = ROkBytes(seed \o src)

\* the same statement restricted to the capacities of at least one byte
C6_ToEndCompletePositiveCapacity ==
  /\ (mach = "ToEnd" /\ op = "resume") => (res.tag = "Ok" <=> InnerEof)
  /\ (ToEndDone /\ late = 0 /\ cap0 >= 1)
       => res = ROkBytes(seed \o src)

(***************************************************************************)
(* The primitive coroutines under any caller: a ReadStream resumed with    *)
(* None or with any StreamIo value, given any buffer by replace and        *)
(* truncated to any length; a WriteStream resumed with None or with any    *)
(* StreamIo value.                                                         *)
(***************************************************************************)
InitRead ==
  /\ mach = "Read"
  /\ \E capacity \in 0..MaxCap : rd = ReadWithCapacity(capacity)
  /\ wr = WriteNew(Vec(<<>>, 0))
  /\ fed = <<>>

InitWrite ==
  /\ mach = "Write"
  /\ \E bytes \in SeqsUpTo(MaxCap) :
       wr = WriteNew(Vec(bytes, Len(bytes))) /\ fed = bytes
  /\ rd = ReadWithCapacity(0)

InitPrim ==
  /\ InitRead \/ InitWrite
  /\ ex = ExactWithCapacity(0, 0)
  /\ te = ToEndWithCapacity(0)
  /\ src = <<>>
  /\ pos = 0
  /\ arg = None
  /\ res = RNone
  /\ phase = "call"
  /\ op = "new"
  /\ lastArg = None
  /\ eofs = 0
  /\ shortRep = FALSE
  /\ cap0 = 0
  /\ seed = <<>>
  /\ late = 0
  /\ ios = 0
  /\ sink = <<>>
  /\ drives = 0
  /\ pair = <<>>

\* the observations of a resume of a primitive coroutine with argument a
PrimResumed(r, a) ==
  /\ res' = r.result
  /\ lastArg' = a
  /\ op' = "resume"
  /\ eofs' = IF r.result = REof /\ eofs < 2 THEN eofs + 1 ELSE eofs

RdResumeNone ==
  /\ mach = "Read"
  /\ LET r == ReadResume(rd, None)
     IN  rd' = r.m /\ PrimResumed(r, None)
  /\ shortRep' = FALSE
  /\ UNCHANGED <<mach, wr, ex, te, src, pos, arg, phase, cap0, seed, late, fed,
                 ios, sink, drives, pair>>

RdResumeSome ==
  /\ mach = "Read"
  /\ \E io \in IoPool :
       LET r == ReadResume(rd, Some(io))
       IN  rd' = r.m /\ PrimResumed(r, Some(io))
  /\ UNCHANGED <<mach, wr, ex, te, src, pos, arg, phase, shortRep, cap0, seed,
                 late, fed, ios, sink, drives, pair>>

RdReplace ==
  /\ mach = "Read"
  /\ \E b \in Vecs :
       /\ rd' = ReadReplace(rd, b)
       /\ shortRep' = (Len(b.data) < b.cap)
  /\ op' = "replace"
  /\ UNCHANGED <<mach, wr, ex, te, src, pos, arg, res, phase, lastArg, eofs,
                 cap0, seed, late, fed, ios, sink, drives, pair>>

RdTruncate ==
  /\ mach = "Read"
  /\ \E len \in 0..MaxCap : rd' = ReadTruncate(rd, len)
  /\ op' = "truncate"
  /\ UNCHANGED <<mach, wr, ex, te, src, pos, arg, res, phase, lastArg, eofs,
                 shortRep, cap0, seed, late, fed, ios, sink, drives, pair>>

WrResumeNone ==
  /\ mach = "Write"
  /\ LET r == WriteResume(wr, None)
     IN  wr' = r.m /\ PrimResumed(r, None)
  /\ ios' = IF ios < 2 THEN ios + 1 ELSE ios
  /\ UNCHANGED <<mach, rd, ex, te, src, pos, arg, phase, shortRep, cap0, seed,
                 late, fed, sink, drives, pair>>

WrResumeSome ==
  /\ mach = "Write"
  /\ \E io \in IoPool :
       LET r == WriteResume(wr, Some(io))
       IN  wr' = r.m /\ PrimResumed(r, Some(io))
  /\ UNCHANGED <<mach, rd, ex, te, src, pos, arg, phase, shortRep, cap0, seed,
                 late, fed, ios, sink, drives, pair>>

NextPrim ==
  \/ RdResumeNone \/ RdResumeSome \/ RdReplace \/ RdTruncate
  \/ WrResumeNone \/ WrResumeSome

SpecPrim == InitPrim /\ [][NextPrim]_vars

\* the step is a resume of the ReadStream with Some(io) / of the WriteStream
RdResumedWith == mach = "Read" /\ op' = "resume" /\ lastArg'.some
WrResumedWith == mach = "Write" /\ op' = "resume" /\ lastArg'.some

IsResponse(io) == io.io.ok
IsRequest(io) == ~io.io.ok

(***************************************************************************)
(* C7.  Protocol shape mismatch on Read: in every state of a Read machine, *)
(* resume(Some(io)) with io Write-shaped (a write response or a pending    *)
(* write request) returns Err(InvalidArgument) carrying io, never Ok, Eof  *)
(* or Io, and leaves the machine's buffer unchanged.                       *)
(***************************************************************************)
C7_ReadRejectsWrite ==
  [][(RdResumedWith /\ lastArg'.val.kind = "Write")
       => /\ res' = RErr(InvalidArgument("read output", lastArg'.val))
          /\ res'.tag \notin {"Ok", "Eof", "Io"}
          /\ rd' = rd]_vars

C7_Witness ==
  /\ mach = "Read" /\ op = "resume" /\ lastArg.some
  /\ lastArg.val.kind = "Write" /\ IsResponse(lastArg.val)
  /\ lastArg.val.io.output.bytes_count >= 1
  /\ res.tag = "Err" /\ res.err.got = lastArg.val
  /\ Len(rd.buffer.data) >= 1

(***************************************************************************)
(* C8.  Protocol shape mismatch on Write: in every state of a Write        *)
(* machine, resume(Some(io)) with io Read-shaped returns                   *)
(* Err(InvalidArgument) carrying io, an outcome other than Ok, Eof and Io, *)
(* and leaves the machine's pending bytes unchanged.                       *)
(***************************************************************************)
C8_WriteRejectsRead ==
  [][(WrResumedWith /\ lastArg'.val.kind = "Read")
       => /\ res' = RErr(InvalidArgument("write output", lastArg'.val))
          /\ res'.tag \notin {"Ok", "Eof", "Io"}
          /\ wr' = wr]_vars

C8_Witness ==
  /\ mach = "Write" /\ op = "resume" /\ lastArg.some
  /\ lastArg.val.kind = "Read" /\ IsResponse(lastArg.val)
  /\ lastArg.val.io.output.bytes_count >= 1
  /\ res.tag = "Err" /\ res.err.got = lastArg.val
  /\ Len(wr.bytes.data) >= 1

(***************************************************************************)
(* C9.  EOF monotonicity of Read.  A resume with a read response of zero   *)
(* bytes returns Eof in every state, so also after an earlier Eof and      *)
(* with or without a replace in between; Ok is returned only for a read    *)
(* response of at least one byte, which it carries; and a resume(None)     *)
(* after an Eof emits a read request carrying the zero-filled buffer the   *)
(* machine holds, whose capacity is the capacity() of the machine before   *)
(* and after the call and whose length is that capacity (unless replace    *)
(* was given a buffer shorter than its own capacity).                      *)
(***************************************************************************)
C9_EofMonotone ==
  [][/\ (RdResumedWith /\ lastArg'.val.kind = "Read" /\ IsResponse(lastArg'.val)
           /\ lastArg'.val.io.output.bytes_count = 0)
          => (res' = REof /\ rd' = rd)
     /\ (mach = "Read" /\ op' = "resume" /\ res'.tag = "Ok")
          => /\ lastArg'.some /\ lastArg'.val.kind = "Read"
             /\ IsResponse(lastArg'.val)
             /\ lastArg'.val.io.output.bytes_count > 0
             /\ res'.output = lastArg'.val.io.output
     /\ (mach = "Read" /\ op' = "resume" /\ ~lastArg'.some /\ eofs >= 1)
          => /\ res' = RIo(IoRead(IoErr(rd.buffer)))
             /\ IsZero(rd.buffer)
             /\ ReadCapacity(rd') = ReadCapacity(rd)
             /\ ~shortRep => Len(rd.buffer.data) = ReadCapacity(rd)]_vars

C9_Witness ==
  /\ mach = "Read" /\ eofs = 2 /\ op = "resume" /\ res = REof
  /\ Len(rd.buffer.data) >= 1 /\ Len(rd.buffer.data) = ReadCapacity(rd)

(***************************************************************************)
(* C10.  Idempotent re-presentation of a pending request: for Read and for *)
(* Write, resume(Some(pending request of the machine's shape carrying      *)
(* buffer B)) returns Io with the identical request and leaves the machine *)
(* unchanged; the result depends on the request alone, so feeding it back  *)
(* k >= 1 times gives the request and the machine state of feeding it once.*)
(***************************************************************************)
C10_PendingReemitted ==
  [][/\ (RdResumedWith /\ lastArg'.val.kind = "Read" /\ IsRequest(lastArg'.val))
          => (res' = RIo(lastArg'.val) /\ rd' = rd)
     /\ (WrResumedWith /\ lastArg'.val.kind = "Write" /\ IsRequest(lastArg'.val))
          => (res' = RIo(lastArg'.val) /\ wr' = wr)]_vars

C10_Witness ==
  /\ mach = "Read" /\ op = "resume" /\ lastArg.some
  /\ lastArg.val.kind = "Read" /\ IsRequest(lastArg.val)
  /\ res = RIo(lastArg.val)
  /\ Len(lastArg.val.io.buffer.data) >= 1
  /\ lastArg.val.io.buffer # rd.buffer

(***************************************************************************)
(* C11, as the claim states it.  Once resume(None) has emitted a read      *)
(* request carrying the machine's buffer, the Read machine holds no buffer *)
(* at all: its buffer slot is the empty vector.                            *)
(***************************************************************************)
C11_SlotEmptyAfterRequest ==
  [][(mach = "Read" /\ op' = "resume" /\ ~lastArg'.some)
       => rd'.buffer = Vec(<<>>, 0)]_vars

(***************************************************************************)
(* C11 (amended).  A resume(None) of Read emits a read request carrying    *)
(* the buffer B the machine held and leaves the machine holding another    *)
(* buffer: zero-filled, its length and its capacity both the capacity of   *)
(* B.  The machine keeps the buffer it holds over every resume(Some(..)),  *)
(* so also after an Ok(Output): only replace and truncate change it.       *)
(***************************************************************************)
C11_FreshBufferAfterRequest ==
  [][/\ (mach = "Read" /\ op' = "resume" /\ ~lastArg'.some)
          => /\ res' = RIo(IoRead(IoErr(rd.buffer)))
             /\ Len(rd'.buffer.data) = rd.buffer.cap
             /\ rd'.buffer.cap = rd.buffer.cap
             /\ IsZero(rd'.buffer)
     /\ (mach = "Read" /\ op' = "resume" /\ lastArg'.some) => rd' = rd
     /\ (mach = "Read" /\ rd' # rd) => op' \in {"resume", "replace", "truncate"}
    ]_vars

C11_Witness ==
  /\ mach = "Read" /\ op = "resume" /\ ~lastArg.some
  /\ res.tag = "Io" /\ Len(res.io.io.buffer.data) = 1
  /\ res.io.io.buffer.cap = 2
  /\ Len(rd.buffer.data) = 2 /\ IsZero(rd.buffer)

(***************************************************************************)
(* C13.  Write response classification: resume(Some(write response with    *)
(* Output o)) of a Write returns Eof when o.bytes_count = 0 and Ok(o),     *)
(* with o unchanged, otherwise, a partial write (bytes_count below the     *)
(* length of the buffer) included; in neither case is the result a further *)
(* write request.                                                          *)
(***************************************************************************)
C13_WriteClassification ==
  [][(WrResumedWith /\ lastArg'.val.kind = "Write" /\ IsResponse(lastArg'.val))
       => /\ lastArg'.val.io.output.bytes_count = 0 => res' = REof
          /\ lastArg'.val.io.output.bytes_count # 0
               => res' = ROk(lastArg'.val.io.output)
          /\ res'.tag # "Io"]_vars

C13_Witness ==
  /\ mach = "Write" /\ op = "resume" /\ lastArg.some
  /\ lastArg.val.kind = "Write" /\ IsResponse(lastArg.val)
  /\ lastArg.val.io.output.bytes_count = 1
  /\ Len(lastArg.val.io.output.buffer.data) = 2
  /\ res = ROk(lastArg.val.io.output)

(***************************************************************************)
(* C14.  Write hand-off: the first resume(None) of a Write created with    *)
(* payload P returns one write request whose buffer is P in full and in    *)
(* order and leaves the machine with no pending bytes; every later         *)
(* resume(None) returns a write request with an empty buffer.              *)
(***************************************************************************)
C14_WriteHandOff ==
  [][(mach = "Write" /\ op' = "resume" /\ ~lastArg'.some)
       => /\ res'.tag = "Io" /\ res'.io.kind = "Write" /\ IsRequest(res'.io)
          /\ res'.io.io.buffer.data = IF ios = 0 THEN fed ELSE <<>>
          /\ wr'.bytes.data = <<>>]_vars

C14_Witness ==
  /\ mach = "Write" /\ op = "resume" /\ ~lastArg.some /\ ios = 2
  /\ Len(fed) = 2 /\ res.tag = "Io" /\ res.io.io.buffer.data = <<>>

(***************************************************************************)
(* C12, as the claim states it.  In every reachable state of a ReadExact   *)
(* the accumulated length is at most max, and a resume that returns Ok     *)
(* returns exactly max bytes.                                              *)
(***************************************************************************)
C12_AccumulatorWithinMax ==
  mach = "Exact"
    => /\ Len(ex.buffer) <= ex.max
       /\ res.tag = "Ok" => Len(res.bytes) = ex.max

(***************************************************************************)
(* C12 (amended).  Up to the terminal result, which moves the accumulated  *)
(* bytes out, the accumulated length of a ReadExact never decreases.  It   *)
(* exceeds max by at most the number of bytes given to extend: it is at    *)
(* most max when extend is not called, and at most the larger of max and   *)
(* the length extended when extend is called before the first resume       *)
(* only.  A resume returns Ok exactly when the accumulated length has      *)
(* reached max or more, and then returns exactly max bytes when extend     *)
(* was not called.                                                         *)
(***************************************************************************)
C12_Accumulator ==
  [][mach = "Exact"
       => /\ phase' # "done" => Len(ex'.buffer) >= Len(ex.buffer)
          /\ Len(ex'.buffer) <= ex.max + Len(seed') + late'
          /\ late' = 0 =>
                Len(ex'.buffer) <= (IF Len(seed') > ex.max THEN Len(seed')
                                                          ELSE ex.max)
          /\ op' = "resume" =>
               /\ res'.tag = "Ok" =>
                     /\ Len(res'.bytes) >= ex.max
                     /\ Unseeded => Len(res'.bytes) = ex.max
               /\ res'.tag = "Io" => Len(ex'.buffer) < ex.max
               /\ IsUnexpectedEof(res') => Len(res'.err.bytes) < ex.max]_vars

C12_Witness ==
  /\ ExactDone /\ res.tag = "Ok" /\ pos >= 1 /\ ios >= 2
  /\ Len(res.bytes) > ex.max /\ late >= 1

(***************************************************************************)
(* C19.  No over-read by ReadExact: with_capacity sizes the inner Read to  *)
(* min(capacity, max); every read request a resume of ReadExact emits      *)
(* carries a buffer no longer than max - len(accumulated) at that moment;  *)
(* and the driver that answers each request with one read never takes      *)
(* from the source a byte beyond the max-th, nor, when extend is called    *)
(* before the first resume only, a byte beyond what max leaves after the   *)
(* bytes extended.                                                         *)
(***************************************************************************)
C19_NoOverRead ==
  [][mach = "Exact"
       => /\ op = "new" =>
               /\ ReadCapacity(ex.read) <= cap0
               /\ ReadCapacity(ex.read) <= ex.max
               /\ ReadCapacity(ex.read) \in {cap0, ex.max}
          /\ (op' = "resume" /\ res'.tag = "Io") =>
               /\ res'.io.kind = "Read" /\ IsRequest(res'.io)
               /\ Len(res'.io.io.buffer.data) <= ex.max - Len(ex'.buffer)
          /\ pos' <= ex.max
          /\ (late' = 0 /\ pos' > 0) => Len(seed') + pos' <= ex.max]_vars

C19_Witness ==
  /\ mach = "Exact" /\ op = "resume" /\ res.tag = "Io" /\ cap0 = 2
  /\ ex.max = 3 /\ Len(ex.buffer) = 2 /\ pos = 2
  /\ Len(res.io.io.buffer.data) = 1

(***************************************************************************)
(* The driver loop of the ReadStream test and of the examples, for Read    *)
(* and for Write: resume, answer every request with runtimes::std::handle  *)
(* on an in-memory stream (its reads and writes do not fail), resume with  *)
(* the response.  After an Ok, and before a resume(None), the caller of a  *)
(* Read may give a buffer to replace (the buffer of the output, as the     *)
(* test does, or any other) and may truncate; it may also hand a response  *)
(* to handle a second time before resuming with it.                        *)
(***************************************************************************)
InitLoop ==
  /\ \/ InitRead /\ src \in SeqsUpTo(MaxLen)
     \/ InitWrite /\ src = <<>>
  /\ ex = ExactWithCapacity(0, 0)
  /\ te = ToEndWithCapacity(0)
  /\ pos = 0
  /\ sink = <<>>
  /\ drives = 0
  /\ pair = <<>>
  /\ arg = None
  /\ res = RNone
  /\ phase = "call"
  /\ op = "new"
  /\ lastArg = None
  /\ eofs = 0
  /\ shortRep = FALSE
  /\ cap0 = 0
  /\ seed = <<>>
  /\ late = 0
  /\ ios = 0

LoopResumed(r) ==
  /\ res' = r.result
  /\ lastArg' = arg
  /\ arg' = None
  /\ op' = "resume"
  /\ phase' = CASE r.result.tag = "Io" -> "io"
                [] r.result.tag = "Ok" -> "ok"
                [] OTHER -> "done"
  /\ ios' = IF r.result.tag = "Io" THEN ios + 1 ELSE ios
  /\ eofs' = IF r.result = REof /\ eofs < 2 THEN eofs + 1 ELSE eofs
  /\ shortRep' = IF arg.some THEN shortRep ELSE FALSE

LpResume ==
  /\ phase \in {"call", "ok"}
  /\ \/ /\ mach = "Read"
        /\ LET r == ReadResume(rd, arg)
           IN  rd' = r.m /\ LoopResumed(r)
        /\ wr' = wr
     \/ /\ mach = "Write"
        /\ LET r == WriteResume(wr, arg)
           IN  wr' = r.m /\ LoopResumed(r)
        /\ rd' = rd
  /\ UNCHANGED <<mach, ex, te, src, pos, sink, cap0, seed, late, fed,
                 drives, pair>>

\* the counts the stream can return for the request or response io
HandleCounts(io) ==
  LET b == IF io.io.ok THEN io.io.output.buffer ELSE io.io.buffer
  IN  IF io.kind = "Read" THEN ReadCounts(Len(b.data), Len(src) - pos)
      ELSE WriteCounts(Len(b.data))

LpHandle ==
  /\ mach \in {"Read", "Write"}
  /\ phase = "io"
  /\ \E n \in HandleCounts(res.io) : Handled(n)
  /\ UNCHANGED <<mach, rd, wr, ex, te, src, res, lastArg, eofs, shortRep,
                 cap0, seed, late, ios, drives, pair>>

\* handle given the response it returned
LpPass ==
  /\ mach \in {"Read", "Write"}
  /\ phase = "call"
  /\ arg.some
  /\ \E n \in HandleCounts(arg.val) :
       LET h == StdHandle(arg.val, src, pos, n)
       IN  /\ arg' = Some(h.io)
           /\ pos' = h.pos
           /\ sink' = sink \o h.written
           /\ fed' = fed \o SubSeq(src, pos + 1, h.pos)
  /\ op' = "pass"
  /\ UNCHANGED <<mach, rd, wr, ex, te, src, res, phase, lastArg, eofs,
                 shortRep, cap0, seed, late, ios, drives, pair>>

MayPrepare == phase = "ok" \/ (phase = "call" /\ ~arg.some)

\* the buffer of the output the caller holds
Recycled == IF res.tag = "Ok" THEN {res.output.buffer} ELSE {}

LpReplace ==
  /\ mach = "Read"
  /\ MayPrepare
  /\ \E b \in Recycled \cup Vecs :
       /\ rd' = ReadReplace(rd, b)
       /\ shortRep' = (Len(b.data) < b.cap)
  /\ op' = "replace"
  /\ UNCHANGED <<mach, wr, ex, te, src, pos, sink, arg, res, phase, lastArg,
                 eofs, cap0, seed, late, fed, ios, drives, pair>>

LpTruncate ==
  /\ mach = "Read"
  /\ MayPrepare
  /\ \E len \in 0..MaxCap : rd' = ReadTruncate(rd, len)
  /\ op' = "truncate"
  /\ UNCHANGED <<mach, wr, ex, te, src, pos, sink, arg, res, phase, lastArg,
                 eofs, shortRep, cap0, seed, late, fed, ios, drives, pair>>

NextLoop == LpResume \/ LpHandle \/ LpPass \/ LpReplace \/ LpTruncate

SpecLoop == InitLoop /\ [][NextLoop]_vars

(***************************************************************************)
(* C15.  Output well-formedness: every Output a Read or a Write returns as *)
(* Ok, every request having been answered by handle, has bytes_count <=    *)
(* len(buffer), and bytes() is the first bytes_count bytes of the buffer:  *)
(* for a Read the bytes the latest read took from the stream, for a Write  *)
(* the bytes the write put on the stream, out of the payload.              *)
(***************************************************************************)
C15_OutputWellFormed ==
  (mach \in {"Read", "Write"} /\ res.tag = "Ok")
    => /\ res.output.bytes_count <= Len(res.output.buffer.data)
       /\ Len(Bytes(res.output)) = res.output.bytes_count
       /\ \A i \in 1..res.output.bytes_count :
            Bytes(res.output)[i] = res.output.buffer.data[i]
       /\ mach = "Read" =>
            Bytes(res.output)
              = SubSeq(src, pos - res.output.bytes_count + 1, pos)
       /\ mach = "Write" =>
            /\ res.output.buffer.data = fed
            /\ Bytes(res.output)
                 = SubSeq(sink, Len(sink) - res.output.bytes_count + 1,
                          Len(sink))

C15_Witness ==
  /\ mach = "Write" /\ res.tag = "Ok" /\ phase = "ok"
  /\ res.output.bytes_count = 1 /\ Len(res.output.buffer.data) = 2
  /\ Len(sink) = 1

(***************************************************************************)
(* C16.  No stale bytes: the buffer a Read holds, and so every buffer a    *)
(* read request emitted from resume(None) carries, is entirely zero in     *)
(* every state reached through with_capacity, truncate, replace and        *)
(* resume; and in every Output the runtime produces and the Read returns,  *)
(* the positions from bytes_count on are zero.                             *)
(***************************************************************************)
C16_NoStaleBytes ==
  mach = "Read"
    => /\ IsZero(rd.buffer)
       /\ res.tag = "Io" => IsZero(res.io.io.buffer)
       /\ (arg.some /\ IsResponse(arg.val)) =>
            \A i \in (arg.val.io.output.bytes_count + 1)
                       ..Len(arg.val.io.output.buffer.data) :
              arg.val.io.output.buffer.data[i] = 0
       /\ res.tag = "Ok" =>
            \A i \in (res.output.bytes_count + 1)
                       ..Len(res.output.buffer.data) :
              res.output.buffer.data[i] = 0

C16_Witness ==
  /\ mach = "Read" /\ res.tag = "Ok" /\ src = <<1, 1, 1>> /\ pos = 3
  /\ ios = 2 /\ res.output.bytes_count = 1
  /\ res.output.buffer.data = <<1, 0>>

(***************************************************************************)
(* C17.  Runtime adapter request handling: handle, given a read (write)    *)
(* request carrying buffer B, performs one read (write) on the stream and  *)
(* returns a response of the same shape carrying B, its length and         *)
(* capacity unchanged, with a count n, 0 <= n <= len(B).  For a read the   *)
(* first n bytes of B are the next n bytes of the stream, the stream       *)
(* advances by n and the rest of B is untouched; for a write B is          *)
(* unchanged and its first n bytes are appended to the stream.             *)
(***************************************************************************)
C17_HandleRequest ==
  [][(mach \in {"Read", "Write"} /\ op' = "handle")
       => /\ IsRequest(res.io)
          /\ arg'.some /\ arg'.val.kind = res.io.kind /\ IsResponse(arg'.val)
          /\ Len(arg'.val.io.output.buffer.data) = Len(res.io.io.buffer.data)
          /\ arg'.val.io.output.buffer.cap = res.io.io.buffer.cap
          /\ arg'.val.io.output.bytes_count >= 0
          /\ arg'.val.io.output.bytes_count <= Len(res.io.io.buffer.data)
          /\ res.io.kind = "Read" =>
               /\ pos' = pos + arg'.val.io.output.bytes_count
               /\ pos' <= Len(src)
               /\ \A i \in 1..Len(res.io.io.buffer.data) :
                    arg'.val.io.output.buffer.data[i]
                      = IF i <= arg'.val.io.output.bytes_count
                        THEN src[pos + i]
                        ELSE res.io.io.buffer.data[i]
               /\ sink' = sink
          /\ res.io.kind = "Write" =>
               /\ arg'.val.io.output.buffer = res.io.io.buffer
               /\ sink' = sink \o SubSeq(res.io.io.buffer.data, 1,
                                         arg'.val.io.output.bytes_count)
               /\ pos' = pos]_vars

C17_Witness ==
  /\ mach = "Read" /\ op = "handle" /\ arg.some /\ pos = 3
  /\ src = <<0, 0, 1, 1>>
  /\ arg.val.io.output.bytes_count = 1
  /\ arg.val.io.output.buffer.data = <<1, 0>>

(***************************************************************************)
(* C18.  Runtime adapter pass-through: handle, given an Io that carries a  *)
(* completed Output, returns that value unchanged and performs no read or  *)
(* write: the position of the stream and the bytes written to it are      *)
(* unchanged.                                                              *)
(***************************************************************************)
C18_HandlePassThrough ==
  [][(mach \in {"Read", "Write"} /\ op' = "pass")
       => /\ IsResponse(arg.val)
          /\ arg' = arg
          /\ pos' = pos
          /\ sink' = sink]_vars

C18_Witness ==
  /\ mach = "Read" /\ op = "pass" /\ arg.some /\ IsResponse(arg.val)
  /\ arg.val.io.output.bytes_count = 1 /\ pos = 1 /\ Len(src) = 3
  /\ Len(arg.val.io.output.buffer.data) = 2

(***************************************************************************)
(* The driver loops of ReadExact and ReadToEnd with a caller that, at any  *)
(* point before the terminal result, resumes the machine with a            *)
(* Write-shaped value (a pending write request or a write response) in     *)
(* place of the argument the loop would pass, and that resumes the machine *)
(* with None once more after a terminal result that handed it bytes.       *)
(***************************************************************************)
WriteShaped ==
  {IoWrite(IoErr(Vec(<<1>>, 1))), IoWrite(IoOk(Output(Vec(<<1>>, 1), 1)))}

Misused(r, io) ==
  /\ res' = r.result
  /\ lastArg' = Some(io)
  /\ arg' = None
  /\ op' = "misuse"
  /\ phase' = IF r.result.tag = "Io" THEN "io" ELSE "done"
  /\ ios' = IF r.result.tag = "Io" THEN ios + 1 ELSE ios
  /\ eofs' = IF r.result = REof /\ eofs < 2 THEN eofs + 1 ELSE eofs
  /\ drives' = r.inner

ExMisuse ==
  /\ mach = "Exact"
  /\ phase \in {"call", "io"}
  /\ \E io \in WriteShaped :
       LET r == ExactResume(ex, Some(io))
       IN  ex' = r.m /\ Misused(r, io)
  /\ UNCHANGED <<mach, rd, wr, te, src, pos, shortRep, cap0, seed, late, fed,
                 sink, pair>>

TeMisuse ==
  /\ mach = "ToEnd"
  /\ phase \in {"call", "io"}
  /\ \E io \in WriteShaped :
       LET r == ToEndResume(te, Some(io))
       IN  te' = r.m /\ Misused(r, io)
  /\ UNCHANGED <<mach, rd, wr, ex, src, pos, shortRep, cap0, seed, late, fed,
                 sink, pair>>

\* the result hands bytes to the caller
Delivers(r) == r.tag = "Ok" \/ IsUnexpectedEof(r)
Delivered(r) == IF r.tag = "Ok" THEN r.bytes ELSE r.err.bytes

\* the observations of a resume(None) past the terminal result
ResumedAgain(r) ==
  /\ res' = r.result
  /\ lastArg' = None
  /\ arg' = None
  /\ op' = "again"
  /\ phase' = "after"
  /\ ios' = IF r.result.tag = "Io" THEN ios + 1 ELSE ios
  /\ eofs' = IF r.result = REof /\ eofs < 2 THEN eofs + 1 ELSE eofs
  /\ drives' = r.inner

ExAgain ==
  /\ mach = "Exact"
  /\ phase = "done"
  /\ Delivers(res)
  /\ LET r == ExactResume(ex, None)
     IN  ex' = r.m /\ ResumedAgain(r)
  /\ UNCHANGED <<mach, rd, wr, te, src, pos, shortRep, cap0, seed, late, fed,
                 sink, pair>>

TeAgain ==
  /\ mach = "ToEnd"
  /\ phase = "done"
  /\ Delivers(res)
  /\ LET r == ToEndResume(te, None)
     IN  te' = r.m /\ ResumedAgain(r)
  /\ UNCHANGED <<mach, rd, wr, ex, src, pos, shortRep, cap0, seed, late, fed,
                 sink, pair>>

InitComposed == InitExact \/ InitToEnd

NextComposed ==
  \/ NextExact \/ NextToEnd
  \/ ExMisuse \/ TeMisuse
  \/ ExAgain \/ TeAgain

SpecComposed == InitComposed /\ [][NextComposed]_vars

(***************************************************************************)
(* C20, as the claim states it.  In every state of a ReadExact or a        *)
(* ReadToEnd, resume(Some(io)) with io Write-shaped returns Err wrapping   *)
(* the inner Read's InvalidArgument, and the accumulated bytes are neither *)
(* returned nor modified.                                                  *)
(***************************************************************************)
C20_MisuseAlwaysPropagated ==
  [][op' = "misuse"
       => /\ res'.tag = "Err" /\ res'.err.variant = "Read"
          /\ res'.err.source = InvalidArgument("read output", lastArg'.val)
          /\ ex'.buffer = ex.buffer
          /\ te'.buffer = te.buffer]_vars

(***************************************************************************)
(* C20 (amended).  In every state of a ReadToEnd, and in every state of a  *)
(* ReadExact whose accumulated length is below max, resume(Some(io)) with  *)
(* io Write-shaped returns Err wrapping the inner Read's InvalidArgument,  *)
(* which carries io, and leaves the accumulated bytes in the machine       *)
(* unchanged.  A ReadExact whose accumulated length has reached max does   *)
(* not look at its argument: it returns Ok with the accumulated bytes.     *)
(***************************************************************************)
C20_MisusePropagated ==
  [][op' = "misuse"
       => /\ lastArg'.some /\ lastArg'.val.kind = "Write"
          /\ IF mach = "Exact" /\ Len(ex.buffer) >= ex.max
             THEN res'.tag = "Ok" /\ res'.bytes = ex.buffer
             ELSE /\ res'.tag = "Err" /\ res'.err.variant = "Read"
                  /\ res'.err.source
                       = InvalidArgument("read output", lastArg'.val)
                  /\ ex'.buffer = ex.buffer
                  /\ te'.buffer = te.buffer]_vars

C20_Witness ==
  /\ mach = "Exact" /\ op = "misuse" /\ res.tag = "Err" /\ pos >= 1
  /\ Len(ex.buffer) = 2 /\ ex.max = 3 /\ IsResponse(lastArg.val)

(***************************************************************************)
(* The driver loops of ReadExact and ReadToEnd run as the tests run them:  *)
(* extend is not called, and the loop is sequential code, so a resume that *)
(* is due is performed and a pending request is answered.                  *)
(***************************************************************************)
NextDriven == ExResume \/ ExHandle \/ TeResume \/ TeHandle

SpecDriven ==
  /\ InitComposed
  /\ [][NextDriven]_vars
  /\ WF_vars(ExResume \/ TeResume)
  /\ WF_vars(ExHandle \/ TeHandle)

\* the loop has ended with a result the machine ends on
Terminated ==
  /\ phase = "done"
  /\ mach = "Exact" => (res.tag = "Ok" \/ IsUnexpectedEof(res))
  /\ mach = "ToEnd" => res.tag = "Ok"

(***************************************************************************)
(* C21.  Driver-loop termination: the driver that calls resume(None) and   *)
(* then feeds each request's response back, against a finite source whose  *)
(* reads return at least one byte while bytes remain and the buffer is not *)
(* empty, eventually reaches a terminal result: Ok or UnexpectedEof for    *)
(* ReadExact, Ok for ReadToEnd, for every capacity and max.  ReadExact     *)
(* emits at most max + 1 Io requests.                                      *)
(***************************************************************************)
C21_Termination ==
  /\ <>Terminated
  /\ [](mach = "Exact" => ios <= ex.max + 1)
  /\ [](mach = "ToEnd" => ios <= Len(src) + 1)

C21_Witness ==
  /\ ExactDone /\ Unseeded /\ cap0 = 2 /\ ex.max = 3 /\ ios = 3
  /\ res.tag = "Ok" /\ pos = 3

\* the latest resume was given a read response of at least one byte
DataResponse(a) ==
  /\ a.some /\ a.val.kind = "Read" /\ IsResponse(a.val)
  /\ a.val.io.output.bytes_count > 0

(***************************************************************************)
(* C23.  Bounded work per resume of the composed machines: one call of     *)
(* resume of ReadExact or ReadToEnd calls the inner Read's resume at most  *)
(* twice (once with the argument, once with None; at most once when the    *)
(* argument is None) and returns.  Given a data response that does not     *)
(* complete the operation, the call appends the data and returns the next  *)
(* Io request.  Every result other than an Io request of the inner Read    *)
(* ends the loop.                                                          *)
(***************************************************************************)
C23_BoundedWork ==
  [][(mach \in {"Exact", "ToEnd"} /\ op' \in {"resume", "misuse"})
       => /\ drives' <= 2
          /\ ~lastArg'.some => drives' <= 1
          /\ (mach = "Exact" /\ DataResponse(lastArg')
                /\ Len(ex.buffer) + lastArg'.val.io.output.bytes_count < ex.max)
               => /\ res'.tag = "Io" /\ drives' = 2
                  /\ ex'.buffer = ex.buffer \o Bytes(lastArg'.val.io.output)
          /\ (mach = "ToEnd" /\ DataResponse(lastArg'))
               => /\ res'.tag = "Io" /\ drives' = 2
                  /\ te'.buffer = te.buffer \o Bytes(lastArg'.val.io.output)
          /\ res'.tag = "Io"
               => /\ res'.io.kind = "Read" /\ IsRequest(res'.io)
                  /\ drives' >= 1 /\ phase' = "io"
          /\ res'.tag # "Io" => phase' = "done"]_vars

C23_Witness ==
  /\ mach = "Exact" /\ op = "resume" /\ drives = 2 /\ res.tag = "Io"
  /\ DataResponse(lastArg) /\ Len(ex.buffer) = 2 /\ ex.max = 3 /\ pos = 2

(***************************************************************************)
(* The driver loops of the four machines together: every Io request a      *)
(* machine emits is given to handle and the response is fed back to the    *)
(* machine that emitted it.                                                *)
(***************************************************************************)
InitHandled == InitLoop \/ InitExact \/ InitToEnd

NextHandled == NextLoop \/ NextExact \/ NextToEnd

SpecHandled == InitHandled /\ [][NextHandled]_vars

\* the shape of the requests and responses of the machine driven
ShapeOf(machine) == IF machine = "Write" THEN "Write" ELSE "Read"

(***************************************************************************)
(* C24.  Well-formed composition never misuses the protocol: in the driver *)
(* loop of Read, Write, ReadExact or ReadToEnd no resume returns an        *)
(* InvalidArgument error, bare or wrapped: every request emitted has the   *)
(* machine's shape and handle answers it with a response of that shape.    *)
(***************************************************************************)
C24_NoInvalidArgument ==
  /\ res.tag = "Err" => res.err.variant \notin {"InvalidArgument", "Read"}
  /\ res.tag = "Io" => (IsRequest(res.io) /\ res.io.kind = ShapeOf(mach))
  /\ arg.some => (IsResponse(arg.val) /\ arg.val.kind = ShapeOf(mach))

C24_Witness ==
  /\ ToEndDone /\ res.tag = "Ok" /\ ios = 3 /\ lastArg.some
  /\ lastArg.val.kind = "Read" /\ Len(res.bytes) = 3

\* the accumulator of the machine driven, before and after the step
Acc == IF mach = "Exact" THEN ex.buffer ELSE te.buffer
AccNext == IF mach = "Exact" THEN ex'.buffer ELSE te'.buffer

(***************************************************************************)
(* C25, as the claim states it.  When ReadExact returns Ok or              *)
(* UnexpectedEof, or ReadToEnd returns Ok, the accumulator is left empty;  *)
(* on Io and on wrapped Read errors the accumulator is the one the machine *)
(* held before the call.                                                   *)
(***************************************************************************)
C25_AccumulatorUnchangedOnIo ==
  [][(mach \in {"Exact", "ToEnd"} /\ op' \in {"resume", "misuse"})
       => /\ Delivers(res') => AccNext = <<>>
          /\ res'.tag = "Io" => AccNext = Acc
          /\ (res'.tag = "Err" /\ res'.err.variant = "Read")
               => AccNext = Acc]_vars

(***************************************************************************)
(* C25 (amended).  When ReadExact returns Ok or UnexpectedEof, or          *)
(* ReadToEnd returns Ok, the result carries the accumulated bytes (those   *)
(* held before the call, followed by the bytes of a data response the call *)
(* appended) and the accumulator is left empty, so that a later            *)
(* resume(None) returns none of them: it returns an Io request, or Ok with *)
(* no bytes.  On Io the accumulator keeps the bytes it held, followed by   *)
(* the bytes of the data response the call consumed, if any; on a wrapped  *)
(* Read error it is unchanged.                                             *)
(***************************************************************************)
C25_MovedOutOnce ==
  [][(mach \in {"Exact", "ToEnd"})
       => /\ (op' \in {"resume", "misuse"} /\ Delivers(res'))
               => /\ AccNext = <<>>
                  /\ Delivered(res')
                       = IF DataResponse(lastArg')
                            /\ (mach = "Exact" => Len(Acc) < ex.max)
                         THEN Acc \o Bytes(lastArg'.val.io.output)
                         ELSE Acc
          /\ (op' \in {"resume", "misuse"} /\ res'.tag = "Io")
               => AccNext = IF DataResponse(lastArg')
                            THEN Acc \o Bytes(lastArg'.val.io.output)
                            ELSE Acc
          /\ (op' \in {"resume", "misuse"} /\ res'.tag = "Err"
                /\ res'.err.variant = "Read")
               => AccNext = Acc
          /\ (op' = "again" /\ Delivers(res))
               => /\ Acc = <<>>
                  /\ AccNext = <<>>
                  /\ res'.tag \in {"Io", "Ok"}
                  /\ res'.tag = "Ok" => res'.bytes = <<>>]_vars

C25_Witness ==
  /\ mach = "Exact" /\ op = "again" /\ phase = "after" /\ res.tag = "Io"
  /\ Unseeded /\ cap0 = 2 /\ ex.max = 2 /\ pos = 2 /\ ex.buffer = <<>>

(***************************************************************************)
(* Two machines side by side: a ReadExact and a ReadStream, each with its  *)
(* own source and its own driver loop (resume, one read that fills the     *)
(* buffer as far as the source allows, resume with the response; the Read  *)
(* is given the output's buffer back by replace after every Ok, and the    *)
(* ReadExact may be pre-seeded by extend).  The steps of the two loops are *)
(* interleaved in every order.  Each instance records the results of its   *)
(* resumes.                                                                *)
(***************************************************************************)
\* the two sources: prefixes of 1,0,1,.. and of 0,1,0,..
ExactSources == {[i \in 1..n |-> i % 2] : n \in 0..MaxCap}
ReadSources == {[i \in 1..n |-> (i + 1) % 2] : n \in 0..MaxCap}
PairSeeds == {<<1>>}

ExactInstance(capacity, max, s) ==
  [m |-> ExactWithCapacity(capacity, max), cap0 |-> capacity, seed |-> <<>>,
   src |-> s, pos |-> 0, arg |-> None, res |-> RNone, phase |-> "call",
   results |-> <<>>]

ReadInstance(capacity, s) ==
  [m |-> ReadWithCapacity(capacity), cap0 |-> capacity,
   src |-> s, pos |-> 0, arg |-> None, res |-> RNone, phase |-> "call",
   results |-> <<>>]

\* the Io arm of the loop: one read into the request's buffer
InstHandle(q) ==
  LET n == Min(Len(q.res.io.io.buffer.data), Len(q.src) - q.pos)
      h == StdHandle(q.res.io, q.src, q.pos, n)
  IN  [q EXCEPT !.arg = Some(h.io), !.pos = h.pos, !.phase = "call"]

\* the instance after a resume that gave r
InstResumed(q, r) ==
  [q EXCEPT !.m = r.m, !.arg = None, !.res = r.result,
            !.results = Append(@, r.result),
            !.phase = CASE r.result.tag = "Io" -> "io"
                        [] r.result.tag = "Ok" /\ "output" \in DOMAIN r.result
                             -> "ok"
                        [] OTHER -> "done"]

\* one step of the loop of the ReadExact instance
ExactStep(q) ==
  IF q.phase = "io" THEN InstHandle(q)
  ELSE InstResumed(q, ExactResume(q.m, q.arg))

\* one step of the loop of the ReadStream instance
ReadStep(q) ==
  CASE q.phase = "io" -> InstHandle(q)
    [] q.phase = "ok" ->
         [q EXCEPT !.m = ReadReplace(q.m, q.res.output.buffer),
                   !.phase = "call"]
    [] OTHER -> InstResumed(q, ReadResume(q.m, q.arg))

ExactSeed(q, b) == [q EXCEPT !.m = ExactExtend(@, b), !.seed = b]

\* a slip: one read buffer shared by all the instances
PairStepSharedBuffer(p, i, q) ==
  IF i = 1
  THEN <<q, [p[2] EXCEPT !.m = [buffer |-> q.m.read.buffer]]>>
  ELSE <<[p[1] EXCEPT !.m = [@ EXCEPT !.read = [buffer |-> q.m.buffer]]], q>>

\* instance i becomes q: each instance owns its fields
PairStep(p, i, q) == [p EXCEPT ![i] = q]

InitPair ==
  /\ mach = "Pair"
  /\ \E c1 \in 0..MaxCap, max \in 0..MaxMax, s1 \in ExactSources,
        c2 \in 0..MaxCap, s2 \in ReadSources :
       pair = <<ExactInstance(c1, max, s1), ReadInstance(c2, s2)>>
  /\ rd = ReadWithCapacity(0)
  /\ wr = WriteNew(Vec(<<>>, 0))
  /\ ex = ExactWithCapacity(0, 0)
  /\ te = ToEndWithCapacity(0)
  /\ src = <<>>
  /\ pos = 0
  /\ sink = <<>>
  /\ arg = None
  /\ res = RNone
  /\ phase = "call"
  /\ op = "new"
  /\ lastArg = None
  /\ eofs = 0
  /\ shortRep = FALSE
  /\ cap0 = 0
  /\ seed = <<>>
  /\ late = 0
  /\ fed = <<>>
  /\ ios = 0
  /\ drives = 0

PrExact ==
  /\ mach = "Pair"
  /\ pair[1].phase # "done"
  /\ pair' = PairStep(pair, 1, ExactStep(pair[1]))
  /\ UNCHANGED <<mach, rd, wr, ex, te, src, pos, sink, arg, res, phase, op,
                 lastArg, eofs, shortRep, cap0, seed, late, fed, ios, drives>>

PrRead ==
  /\ mach = "Pair"
  /\ pair[2].phase # "done"
  /\ pair' = PairStep(pair, 2, ReadStep(pair[2]))
  /\ UNCHANGED <<mach, rd, wr, ex, te, src, pos, sink, arg, res, phase, op,
                 lastArg, eofs, shortRep, cap0, seed, late, fed, ios, drives>>

PrExtend ==
  /\ mach = "Pair"
  /\ pair[1].results = <<>>
  /\ pair[1].seed = <<>>
  /\ \E b \in PairSeeds : pair' = PairStep(pair, 1, ExactSeed(pair[1], b))
  /\ UNCHANGED <<mach, rd, wr, ex, te, src, pos, sink, arg, res, phase, op,
                 lastArg, eofs, shortRep, cap0, seed, late, fed, ios, drives>>

NextPair == PrExact \/ PrRead \/ PrExtend

SpecPair == InitPair /\ [][NextPair]_vars

\* the instance at the end of its loop when driven alone from q
RECURSIVE ExactAlone(_)
ExactAlone(q) == IF q.phase = "done" THEN q ELSE ExactAlone(ExactStep(q))

RECURSIVE ReadAlone(_)
ReadAlone(q) == IF q.phase = "done" THEN q ELSE ReadAlone(ReadStep(q))

\* the instance as constructed, and pre-seeded as q was
ExactStart(q) ==
  LET i == ExactInstance(q.cap0, q.m.max, q.src)
  IN  IF q.seed = <<>> THEN i ELSE ExactSeed(i, q.seed)

ReadStart(q) == ReadInstance(q.cap0, q.src)

====
